---- MODULE Spec2Model ----
(***************************************************************************)
(* The hfi1 interrupt / process CPU affinity allocator                     *)
(* (drivers/infiniband/hw/hfi1/affinity.c).                                 *)
(*                                                                         *)
(* A cpumask is modelled as a set of CPU ids.  Bits 0 .. nr_cpu_ids-1 are   *)
(* the valid CPUs; cpumask_first()/cpumask_next() return nr_cpu_ids when    *)
(* no bit is found.  Setting bit nr_cpu_ids is outside the cpumask          *)
(* contract: whether that bit is then seen by later operations depends on   *)
(* the build (nr_cpumask_bits, word padding), so it is the choice `oob`     *)
(* made once per behaviour.                                                 *)
(*                                                                         *)
(* Every handler body runs under node_affinity.lock, so the specification   *)
(* Spec takes one handler call as one step.  SpecConc runs the attach       *)
(* handler as threads that take and drop the lock in separate steps.        *)
(***************************************************************************)
EXTENDS Integers, Sequences, FiniteSets, TLC

VARIABLES
    topo,           \* the machine: CPUs, NUMA nodes, HT siblings, PCI devices
    n_krcv_queues,  \* dd->n_krcv_queues of every device
    oob,            \* TRUE iff a bit set at index nr_cpu_ids stays visible
    list,           \* node_affinity.list: sequence of hfi1_affinity_node
    proc,           \* node_affinity.proc: the process cpu_mask_set
    attached,       \* devices whose hfi1_dev_affinity_init() returned 0
    msix_mask,      \* msix_mask[d][i]: dd->msix_entries[i].mask
    armed,          \* armed[d]: vectors acquired and not yet released
    sde_cpu,        \* sde_cpu[d][e]: sde->cpu of SDMA engine e while its
                    \* vector is armed, -1 otherwise (the value is dead then:
                    \* acquire overwrites it before the notifier can read it)
    held,           \* held[c]: open contexts that were given CPU c by
                    \* hfi1_get_proc_affinity (c = -1: no CPU)
    moves,          \* affinity changes the user has made so far
    lock,           \* node_affinity.lock: 0 when free, else the holder
    pc,             \* pc[t]: position of attach thread t (SpecConc)
    found,          \* found[t]: result of node_affinity_lookup in thread t
    crit,           \* the task inside the locked section of
                    \* hfi1_get_proc_affinity or hfi1_put_proc_affinity when
                    \* that section runs step by step (SpecRace): the
                    \* operation, its position and its locals
    acq,            \* acq[t]: the call of hfi1_get_irq_affinity thread t is
                    \* in, when the call runs step by step (SpecAcq): its
                    \* position, its vector and its locals
    scratch         \* the cpumask_var_t scratch masks that were allocated by
                    \* zalloc_cpumask_var and not yet handed to
                    \* free_cpumask_var (CONFIG_CPUMASK_OFFSTACK, the
                    \* configuration in which zalloc_cpumask_var can fail)

vars == <<topo, n_krcv_queues, oob, list, proc, attached, msix_mask, armed,
          sde_cpu, held, moves, lock, pc, found, crit, acq, scratch>>

(***************************************************************************)
(* Bounds of the model.                                                    *)
(***************************************************************************)
\* largest generation a pool may reach (gen is an unbounded uint counter)
MaxGen == 2
\* largest number of process contexts open at the same time
MaxProc == 3
\* largest number of interrupt vectors armed at the same time
MaxArmed == 3
\* largest number of affinity changes the user makes through /proc/irq
MaxMoves == 2
\* largest number of scratch masks that stay allocated
MaxLeak == 2

(***************************************************************************)
(* Machines.  node_cpus[n+1] is cpumask_of_node(n); sibs is the weight of  *)
(* the sibling mask of the first online CPU; core0 is                      *)
(* topology_core_cpumask(0); bus_node[d] is pcibus_to_node() of device d   *)
(* (-1: unknown), cur_node is numa_node_id() and msix[d] lists the MSI-X   *)
(* vectors of device d.  In every machine HT siblings are not enumerated   *)
(* in succession, as init_real_cpu_mask assumes.                           *)
(***************************************************************************)
Machine(nr, on, nodes, sibs, core0, bus, cur, msix) ==
    [nr_cpu_ids |-> nr, online |-> on, node_cpus |-> nodes, sibs |-> sibs,
     core0 |-> core0, bus_node |-> bus, cur_node |-> cur, msix |-> msix]

\* dd->msix_entries[i]: its type and its arg (the SDMA engine index, or the
\* number of the receive context)
General == [type |-> "IRQ_GENERAL", arg |-> 0]
Sdma(e) == [type |-> "IRQ_SDMA", arg |-> e]
Rcv(ctxt) == [type |-> "IRQ_RCVCTXT", arg |-> ctxt]
\* an entry whose type is none of the three the switch of get_irq_affinity
\* names
Other == [type |-> "IRQ_OTHER", arg |-> 0]

FullTable == <<General, Sdma(0), Sdma(1), Rcv(0), Rcv(1), Rcv(2)>>

\* one device on a node of three cores
OneDev3 == Machine(3, {0, 1, 2}, <<{0, 1, 2}>>, 1, {0}, <<0>>, 0,
                   <<FullTable>>)
\* two devices sharing a node of three cores
TwoDev3 == Machine(3, {0, 1, 2}, <<{0, 1, 2}>>, 1, {0}, <<0, 0>>, 0,
                   << <<Rcv(1)>>, <<Sdma(0)>> >>)
\* the same with more vectors
TwoDev3Sdma == Machine(3, {0, 1, 2}, <<{0, 1, 2}>>, 1, {0}, <<0, 0>>, 0,
                       << <<Sdma(0), Rcv(1), Rcv(2)>>, <<Sdma(0), Sdma(1)>> >>)
\* two cores with two HW threads each, one device
OneDevHT == Machine(4, {0, 1, 2, 3}, <<{0, 1, 2, 3}>>, 2, {0, 2}, <<0>>, 0,
                    <<FullTable>>)
\* two single-core nodes, the device on node 1
TwoNodeUP == Machine(2, {0, 1}, <<{0}, {1}>>, 1, {0}, <<1>>, 0,
                     << <<Sdma(0)>> >>)
\* two single-core nodes; the bus of the device does not tell its node
OneDevUP == Machine(2, {0, 1}, <<{0}, {1}>>, 1, {0}, <<-1>>, 1,
                    << <<General, Sdma(0), Sdma(1), Rcv(1)>> >>)

\* one device with four SDMA engines on a node of five cores
OneDev5 == Machine(5, {0, 1, 2, 3, 4}, <<{0, 1, 2, 3, 4}>>, 1, {0}, <<0>>, 0,
                   << <<Sdma(0), Sdma(1), Sdma(2), Sdma(3), Rcv(1), Rcv(2)>> >>)
\* ten cores: node 0 owns CPUs 2, 4, 6, 8 and one device, node 1 two devices
Even4 == Machine(10, {0, 1, 2, 3, 4, 5, 6, 7, 8, 9},
                 <<{2, 4, 6, 8}, {0, 1, 3, 5, 7, 9}>>, 1, {0}, <<0, 1, 1>>, 0,
                 << <<Sdma(0)>>, <<Sdma(0)>>, <<Sdma(0)>> >>)
\* one core with two HW threads, two devices
OneCoreHT == Machine(2, {0, 1}, <<{0, 1}>>, 2, {0, 1}, <<0, 0>>, 0,
                     << <<Sdma(0)>>, <<Sdma(0)>> >>)
\* three devices: two share node 0, the third is on node 1
ThreeDev4 == Machine(4, {0, 1, 2, 3}, <<{0, 1}, {2, 3}>>, 1, {0}, <<0, 0, 1>>,
                     0, << <<Sdma(0)>>, <<Sdma(0)>>, <<Sdma(0)>> >>)
\* one device with a vector of a type get_irq_affinity does not know
OneDevOther == Machine(3, {0, 1, 2}, <<{0, 1, 2}>>, 1, {0}, <<0>>, 0,
                       << <<General, Sdma(0), Rcv(1), Other>> >>)
\* the same on two single-core nodes
TwoNodeOther == Machine(2, {0, 1}, <<{0}, {1}>>, 1, {0}, <<1>>, 0,
                        << <<Sdma(0), Other>> >>)
\* two devices sharing a node of four cores
TwoDev4 == Machine(4, {0, 1, 2, 3}, <<{0, 1, 2, 3}>>, 1, {0}, <<0, 0>>, 0,
                   << <<Sdma(0), Sdma(1), Rcv(1)>>, <<Sdma(0), Rcv(1)>> >>)
\* two nodes of four cores, no hyperthreading, the device on node 0
EightCpu == Machine(8, {0, 1, 2, 3, 4, 5, 6, 7}, <<{0, 1, 2, 3}, {4, 5, 6, 7}>>,
                    1, {0}, <<0>>, 0, << <<General>> >>)
\* two nodes of one core with two HW threads each, the device on node 1
TwoNodeHT == Machine(4, {0, 1, 2, 3}, <<{0, 2}, {1, 3}>>, 2, {0, 2}, <<1>>, 0,
                     << <<Sdma(0), Rcv(1)>> >>)
\* two cores with two HW threads each, the sibling of CPU 1 is offline
OddHT == Machine(3, {0, 1, 2}, <<{0, 1, 2}>>, 2, {0, 2}, <<0>>, 0,
                 << <<Sdma(0)>> >>)

SmallMachines == {TwoDev3, OneDevUP, TwoNodeHT}
IrqMachines == {OneDev3, TwoDev3, TwoDev3Sdma, OneDevHT, OneDevUP}
FreshMachines == {OneDev3, TwoDev3, OneDevHT, OneDevUP, OneDev5}
AttachMachines ==
    {OneDev3, TwoDev3, OneDevHT, OneDevUP, Even4, OneCoreHT, ThreeDev4}
ConcMachines == {TwoDev3, OneCoreHT, ThreeDev4}
ProcMachines == {TwoNodeUP, TwoNodeHT, EightCpu, OddHT}

nr_cpu_ids == topo.nr_cpu_ids
cpu_online_mask == topo.online
Nodes == 0 .. (Len(topo.node_cpus) - 1)
cpumask_of_node(node) == topo.node_cpus[node + 1]
Devs == DOMAIN topo.bus_node
num_online_cpus == Cardinality(cpu_online_mask)
num_online_nodes == Len(topo.node_cpus)

(***************************************************************************)
(* cpumask primitives.                                                     *)
(***************************************************************************)
Min(S) == CHOOSE x \in S : \A y \in S : x <= y

cpumask_first(S) == IF S = {} THEN nr_cpu_ids ELSE Min(S)
cpumask_next(n, S) == cpumask_first({c \in S : c > n})
cpumask_weight(S) == Cardinality(S)
cpumask_set_cpu(cpu, S) == IF cpu < nr_cpu_ids \/ oob THEN S \cup {cpu} ELSE S
cpumask_clear_cpu(cpu, S) == S \ {cpu}
cpumask_shift_left(S, n) == {c + n : c \in S} \cap (0 .. (nr_cpu_ids - 1))

\* curr_cpu after n further cpumask_next() steps over mask
RECURSIVE NextCpus(_, _, _)
NextCpus(curr_cpu, n, mask) ==
    IF n <= 0 THEN curr_cpu
    ELSE NextCpus(cpumask_next(curr_cpu, mask), n - 1, mask)

\* mask after n rounds of "clear curr_cpu; curr_cpu = next"
RECURSIVE ClearCpus(_, _, _)
ClearCpus(curr_cpu, n, mask) ==
    IF n <= 0 THEN mask
    ELSE LET m == cpumask_clear_cpu(curr_cpu, mask)
         IN  ClearCpus(cpumask_next(curr_cpu, m), n - 1, m)

init_cpu_mask_set == [mask |-> {}, used |-> {}, gen |-> 0]

init_real_cpu_mask ==
    LET m0 == cpu_online_mask
        possible == cpumask_weight(m0)
        ht == topo.sibs
        curr_cpu == NextCpus(cpumask_first(m0), possible \div ht, m0)
    IN  ClearCpus(curr_cpu, possible - (possible \div ht), m0)

\* node_affinity_init: the process pool and the topology counters
node_affinity_init_proc == [mask |-> cpu_online_mask, used |-> {}, gen |-> 0]
num_core_siblings == topo.sibs

\* the NUMA node of device d: pcibus_to_node(), else numa_node_id()
dd_node(d) == IF topo.bus_node[d] < 0 THEN topo.cur_node ELSE topo.bus_node[d]

\* a plausible bug: the devices sharing the node are not counted
per_node_cntr_one(node) == 1

\* hfi1_per_node_cntr[node], as counted by node_affinity_init
hfi1_per_node_cntr(node) == Cardinality({d \in Devs : dd_node(d) = node})

(***************************************************************************)
(* The registry list.                                                      *)
(***************************************************************************)
\* index of the first entry of the list for node, 0 for NULL
node_affinity_lookup(l, node) ==
    LET hits == {i \in 1 .. Len(l) : l[i].node = node}
    IN  IF hits = {} THEN 0 ELSE Min(hits)

node_affinity_add_tail(l, entry) == Append(l, entry)

(***************************************************************************)
(* hfi1_dev_affinity_init: the entry built for the node of device d.       *)
(***************************************************************************)
\* the loop moving receive CPUs from the default list to the receive list
RECURSIVE rcv_loop(_, _, _, _, _)
rcv_loop(i, n, curr_cpu, def_mask, rcv_mask) ==
    IF i >= n THEN [def_mask |-> def_mask, rcv_mask |-> rcv_mask]
    ELSE LET d1 == cpumask_clear_cpu(curr_cpu, def_mask)
             r1 == cpumask_set_cpu(curr_cpu, rcv_mask)
             c1 == cpumask_next(curr_cpu, d1)
         IN  IF c1 >= nr_cpu_ids
             THEN [def_mask |-> d1, rcv_mask |-> r1]
             ELSE rcv_loop(i + 1, n, c1, d1, r1)

local_mask(node) ==
    IF cpumask_first(cpumask_of_node(node)) >= nr_cpu_ids
    THEN topo.core0
    ELSE cpumask_of_node(node)

\* the CPUs the default list starts from: the real CPUs local to the node
def_mask0(d) == init_real_cpu_mask \cap local_mask(dd_node(d))

\* the entry of a node with a single real CPU
single_entry(d) ==
    LET curr_cpu == cpumask_first(def_mask0(d))
    IN  [node |-> dd_node(d),
         def_intr |-> [init_cpu_mask_set EXCEPT !.mask = def_mask0(d)],
         rcv_intr |-> [init_cpu_mask_set EXCEPT
                          !.mask = cpumask_set_cpu(curr_cpu, {})],
         general_intr_mask |-> cpumask_set_cpu(curr_cpu, {})]

\* the entry of a node with several real CPUs
split_entry(d) ==
    LET node == dd_node(d)
        curr_cpu == cpumask_first(def_mask0(d))
        def1 == cpumask_clear_cpu(curr_cpu, def_mask0(d))
        general == cpumask_set_cpu(curr_cpu, {})
        r == rcv_loop(0, (n_krcv_queues[d] - 1) * hfi1_per_node_cntr(node),
                      cpumask_next(curr_cpu, def1), def1, {})
        def2 == IF cpumask_weight(r.def_mask) = 0 THEN general ELSE r.def_mask
    IN  [node |-> node,
         def_intr |-> [init_cpu_mask_set EXCEPT !.mask = def2],
         rcv_intr |-> [init_cpu_mask_set EXCEPT !.mask = r.rcv_mask],
         general_intr_mask |-> general]

\* a plausible bug: the single-CPU case is not told apart
new_entry_always_split(d) == split_entry(d)

new_entry(d) ==
    IF cpumask_weight(def_mask0(d)) = 1 THEN single_entry(d)
    ELSE split_entry(d)

\* a plausible bug: the entry is added without looking the node up
dev_affinity_init_no_lookup(l, d) == node_affinity_add_tail(l, new_entry(d))

\* the list after the locked section of hfi1_dev_affinity_init
dev_affinity_init_list(l, d) ==
    IF node_affinity_lookup(l, dd_node(d)) = 0
    THEN node_affinity_add_tail(l, new_entry(d))
    ELSE l

hfi1_dev_affinity_init(d, alloc_ok) ==
    /\ d \notin attached
    /\ \A t \in Devs : pc[t] = "idle"
    /\ IF node_affinity_lookup(list, dd_node(d)) = 0 /\ ~alloc_ok
       THEN UNCHANGED <<list, attached>>
       ELSE /\ list' = dev_affinity_init_list(list, d)
            /\ attached' = attached \cup {d}
    /\ UNCHANGED <<acq, scratch, crit, topo,
                   n_krcv_queues, oob, proc, msix_mask, armed, sde_cpu,
                   held, moves, lock, pc, found>>

(***************************************************************************)
(* hfi1_dev_affinity_init as a thread: thread t attaches device t and      *)
(* takes node_affinity.lock, looks the node up, creates the entry and      *)
(* drops the lock in separate steps.                                       *)
(***************************************************************************)
\* a plausible bug: the list is searched and extended without the lock
mutex_ignored == TRUE

\* mutex_lock(&node_affinity.lock) can return
mutex_is_unlocked == lock = 0

attach_enter(t) ==
    /\ pc[t] = "idle"
    /\ t \notin attached
    /\ pc' = [pc EXCEPT ![t] = "mutex_lock"]
    /\ UNCHANGED <<acq, scratch, crit, topo,
                   n_krcv_queues, oob, list, proc, attached, msix_mask,
                   armed, sde_cpu, held, moves, lock, found>>

attach_mutex_lock(t) ==
    /\ pc[t] = "mutex_lock"
    /\ mutex_is_unlocked
    /\ lock' = t
    /\ pc' = [pc EXCEPT ![t] = "lookup"]
    /\ UNCHANGED <<acq, scratch, crit, topo,
                   n_krcv_queues, oob, list, proc, attached, msix_mask,
                   armed, sde_cpu, held, moves, found>>

attach_lookup(t) ==
    /\ pc[t] = "lookup"
    /\ found' = [found EXCEPT ![t] = node_affinity_lookup(list, dd_node(t))]
    /\ pc' = [pc EXCEPT ![t] = IF found'[t] = 0 THEN "create" ELSE "unlock"]
    /\ UNCHANGED <<acq, scratch, crit, topo,
                   n_krcv_queues, oob, list, proc, attached, msix_mask,
                   armed, sde_cpu, held, moves, lock>>

attach_create(t, alloc_ok) ==
    /\ pc[t] = "create"
    /\ IF alloc_ok
       THEN /\ list' = node_affinity_add_tail(list, new_entry(t))
            /\ pc' = [pc EXCEPT ![t] = "unlock"]
       ELSE /\ pc' = [pc EXCEPT ![t] = "unlock_enomem"]
            /\ UNCHANGED list
    /\ UNCHANGED <<acq, scratch, crit, topo,
                   n_krcv_queues, oob, proc, attached, msix_mask, armed,
                   sde_cpu, held, moves, lock, found>>

attach_mutex_unlock(t) ==
    /\ pc[t] \in {"unlock", "unlock_enomem"}
    /\ lock' = 0
    /\ attached' = IF pc[t] = "unlock" THEN attached \cup {t} ELSE attached
    /\ pc' = [pc EXCEPT ![t] = "idle"]
    /\ found' = [found EXCEPT ![t] = 0]
    /\ UNCHANGED <<acq, scratch, crit, topo,
                   n_krcv_queues, oob, list, proc, msix_mask, armed,
                   sde_cpu, held, moves>>

(***************************************************************************)
(* The MSI-X vectors of a device.  Kernel receive contexts are numbered    *)
(* 0 .. n_krcv_queues-1 and context HFI1_CTRL_CTXT is the control context. *)
(***************************************************************************)
HFI1_CTRL_CTXT == 0

Vectors(d) == DOMAIN topo.msix[d]
msix_type(d, i) == topo.msix[d][i].type
msix_arg(d, i) == topo.msix[d][i].arg
SdmaVectors(d) == {i \in Vectors(d) : msix_type(d, i) = "IRQ_SDMA"}
SdmaEngines(d) == {msix_arg(d, i) : i \in SdmaVectors(d)}

\* the vectors device d has set up
HasVector(d, i) ==
    msix_type(d, i) = "IRQ_RCVCTXT" => msix_arg(d, i) < n_krcv_queues[d]

\* a plausible bug: the control context is accounted like every other
\* receive context
set_of_ctrl_accounted(d, i) ==
    CASE msix_type(d, i) = "IRQ_SDMA" -> "def"
      [] msix_type(d, i) = "IRQ_RCVCTXT" -> "rcv"
      [] OTHER -> "none"

\* which pool of the entry a vector draws from: "def", "rcv" or "none"
set_of(d, i) ==
    CASE msix_type(d, i) = "IRQ_SDMA" -> "def"
      [] msix_type(d, i) = "IRQ_RCVCTXT" /\ msix_arg(d, i) # HFI1_CTRL_CTXT
            -> "rcv"
      [] OTHER -> "none"

get_set(entry, which) ==
    IF which = "def" THEN entry.def_intr ELSE entry.rcv_intr

with_set(entry, which, set) ==
    IF which = "def" THEN [entry EXCEPT !.def_intr = set]
    ELSE [entry EXCEPT !.rcv_intr = set]

\* a plausible bug: the wraparound clears used and forgets the generation
set_get_keeps_gen(set) ==
    LET s1 == IF set.mask = set.used THEN [set EXCEPT !.used = {}] ELSE set
        cpu == cpumask_first(s1.mask \ s1.used)
    IN  [cpu |-> cpu, set |-> [s1 EXCEPT !.used = cpumask_set_cpu(cpu, @)]]

\* a plausible bug: the CPU is taken from the mask without regard to used
set_get_ignores_used(set) ==
    LET s1 == IF set.mask = set.used
              THEN [set EXCEPT !.gen = @ + 1, !.used = {}]
              ELSE set
        cpu == cpumask_first(s1.mask)
    IN  [cpu |-> cpu, set |-> [s1 EXCEPT !.used = cpumask_set_cpu(cpu, @)]]

\* get_irq_affinity, the accounting block: the CPU taken and the set after
set_get(set) ==
    LET s1 == IF set.mask = set.used
              THEN [set EXCEPT !.gen = @ + 1, !.used = {}]
              ELSE set
        diff == s1.mask \ s1.used
        cpu == cpumask_first(diff)
    IN  [cpu |-> cpu, set |-> [s1 EXCEPT !.used = cpumask_set_cpu(cpu, @)]]

\* a plausible bug: the release clears the CPU and nothing else
set_put_no_reset(set, mask) == [set EXCEPT !.used = @ \ mask]

\* hfi1_put_irq_affinity, the accounting block
set_put(set, mask) ==
    LET used == set.used \ mask
    IN  IF used = {} /\ set.gen # 0
        THEN [set EXCEPT !.gen = @ - 1, !.used = set.mask]
        ELSE [set EXCEPT !.used = used]

\* a wraparound of this set would pass the bound on generations
AtMaxGen(set) == set.mask = set.used /\ set.gen >= MaxGen

RECURSIVE SumArmed(_)
SumArmed(D) ==
    IF D = {} THEN 0
    ELSE LET d == Min(D) IN Cardinality(armed[d]) + SumArmed(D \ {d})

ArmedVectors == SumArmed(Devs)

\* the values of EINVAL and ENOMEM
EINVAL == 22
ENOMEM == 12

\* the types the switch of get_irq_affinity has a case for
IrqTypes == {"IRQ_SDMA", "IRQ_GENERAL", "IRQ_RCVCTXT"}

\* get_irq_affinity on list l, after diff was allocated: the value returned,
\* the CPU chosen, the list after the call and the scratch masks that are
\* still allocated when it returns.  The default case of the switch returns
\* at line 452, before entry is used and without free_cpumask_var(diff);
\* every other path reaches line 485.
get_irq_affinity(l, d, i) ==
    LET idx == node_affinity_lookup(l, dd_node(d))
        entry == l[idx]
        which == set_of(d, i)
    IN  IF msix_type(d, i) \notin IrqTypes
        THEN [ret |-> -EINVAL, cpu |-> -1, list |-> l, scratch |-> 1]
        ELSE IF which = "none"
        THEN [ret |-> 0, cpu |-> cpumask_first(entry.general_intr_mask),
              list |-> l, scratch |-> 0]
        ELSE LET got == set_get(get_set(entry, which))
             IN  [ret |-> 0, cpu |-> got.cpu,
                  list |-> [l EXCEPT ![idx] = with_set(entry, which, got.set)],
                  scratch |-> 0]

\* the pool vector i of device d draws from, in list l
set_in(l, d, i) ==
    get_set(l[node_affinity_lookup(l, dd_node(d))], set_of(d, i))

hfi1_get_irq_affinity(d, i, alloc_ok) ==
    /\ d \in attached \/ msix_type(d, i) \notin IrqTypes
    /\ i \notin armed[d]
    /\ HasVector(d, i)
    /\ ArmedVectors < MaxArmed
    /\ IF ~alloc_ok
       THEN /\ msix_mask' = [msix_mask EXCEPT ![d][i] = {}]
            /\ UNCHANGED <<list, armed, sde_cpu, scratch>>
       ELSE LET got == get_irq_affinity(list, d, i)
            IN  IF got.ret # 0
                THEN /\ scratch + got.scratch <= MaxLeak
                     /\ scratch' = scratch + got.scratch
                     /\ msix_mask' = [msix_mask EXCEPT ![d][i] = {}]
                     /\ UNCHANGED <<list, armed, sde_cpu>>
                ELSE
                /\ set_of(d, i) # "none" => ~AtMaxGen(set_in(list, d, i))
                /\ scratch' = scratch + got.scratch
                /\ list' = got.list
                /\ msix_mask' = [msix_mask EXCEPT
                                    ![d][i] = cpumask_set_cpu(got.cpu, {})]
                /\ armed' = [armed EXCEPT ![d] = @ \cup {i}]
                /\ sde_cpu' = IF msix_type(d, i) = "IRQ_SDMA"
                              THEN [sde_cpu EXCEPT
                                       ![d][msix_arg(d, i)] = got.cpu]
                              ELSE sde_cpu
    /\ UNCHANGED <<acq, crit, topo, n_krcv_queues, oob, proc, attached, held, moves,
                   lock, pc, found>>

\* hfi1_get_irq_affinity while the list has no entry for the node of the
\* device.  node_affinity_lookup returns NULL and get_irq_affinity uses the
\* pointer unchecked: every access through it is to an address below
\* sizeof(struct hfi1_affinity_node), where the kernel maps nothing, so the
\* access faults inside the critical section.  The fault ends the calling
\* task (oops) or halts the machine (panic_on_oops); either way the call
\* does not return, node_affinity.lock stays taken and diff stays allocated.
hfi1_get_irq_affinity_null_entry(d, i, alloc_ok) ==
    /\ node_affinity_lookup(list, dd_node(d)) = 0
    /\ msix_type(d, i) \in IrqTypes
    /\ pc[d] = "idle"
    /\ i \notin armed[d]
    /\ HasVector(d, i)
    /\ IF ~alloc_ok
       THEN UNCHANGED <<lock, pc, scratch>>
       ELSE \E fault \in {"oops", "panic"} :
                /\ lock' = d
                /\ pc' = [pc EXCEPT ![d] = fault]
                /\ scratch' = scratch + 1
    /\ UNCHANGED <<acq, crit, topo,
                   n_krcv_queues, oob, list, proc, attached, msix_mask,
                   armed, sde_cpu, held, moves, found>>

\* the list after hfi1_put_irq_affinity of vector i, whose mask is mask
put_irq_affinity(l, mask, d, i) ==
    LET idx == node_affinity_lookup(l, dd_node(d))
        entry == l[idx]
        which == set_of(d, i)
    IN  IF which = "none" THEN l
        ELSE [l EXCEPT ![idx] = with_set(entry, which,
                                  set_put(get_set(entry, which), mask))]

hfi1_put_irq_affinity(d, i) ==
    /\ i \in armed[d]
    /\ list' = put_irq_affinity(list, msix_mask[d][i], d, i)
    /\ msix_mask' = [msix_mask EXCEPT ![d][i] = {}]
    /\ armed' = [armed EXCEPT ![d] = @ \ {i}]
    /\ sde_cpu' = IF msix_type(d, i) = "IRQ_SDMA"
                  THEN [sde_cpu EXCEPT ![d][msix_arg(d, i)] = -1]
                  ELSE sde_cpu
    /\ UNCHANGED <<acq, scratch, crit, topo,
                   n_krcv_queues, oob, proc, attached, held, moves,
                   lock, pc, found>>

(***************************************************************************)
(* hfi1_irq_notifier_notify -> hfi1_update_sdma_affinity: the user moved   *)
(* the affinity of SDMA vector i of device d; cpu is cpumask_first() of    *)
(* the new mask.  The notifier is registered from acquire to release.      *)
(***************************************************************************)
\* some other SDMA vector of the device still has old_cpu in its mask
other_sdma_uses(d, i, old_cpu) ==
    \E j \in Vectors(d) :
        /\ msix_type(d, j) = "IRQ_SDMA"
        /\ j # i
        /\ old_cpu \in msix_mask[d][j]

update_sdma_set(set, d, i, cpu, old_cpu) ==
    LET s1 == [set EXCEPT !.mask = cpumask_set_cpu(cpu, @),
                          !.used = cpumask_set_cpu(cpu, @)]
    IN  IF other_sdma_uses(d, i, old_cpu) THEN s1
        ELSE [s1 EXCEPT !.mask = cpumask_clear_cpu(old_cpu, @),
                        !.used = cpumask_clear_cpu(old_cpu, @)]

update_sdma_rejects(d, i, cpu) ==
    cpu > num_online_cpus \/ cpu = sde_cpu[d][msix_arg(d, i)]

hfi1_irq_notifier_notify(d, i, cpu) ==
    /\ i \in armed[d]
    /\ msix_type(d, i) = "IRQ_SDMA"
    /\ LET idx == node_affinity_lookup(list, dd_node(d))
           entry == list[idx]
           e == msix_arg(d, i)
           old_cpu == sde_cpu[d][e]
       IN  IF update_sdma_rejects(d, i, cpu)
           THEN UNCHANGED <<list, msix_mask, sde_cpu, moves>>
           ELSE /\ moves < MaxMoves
                /\ moves' = moves + 1
                /\ sde_cpu' = [sde_cpu EXCEPT ![d][e] = cpu]
                /\ msix_mask' = [msix_mask EXCEPT
                                    ![d][i] = cpumask_set_cpu(cpu, {})]
                /\ list' = [list EXCEPT ![idx].def_intr =
                               update_sdma_set(@, d, i, cpu, old_cpu)]
    /\ UNCHANGED <<acq, scratch, crit, topo,
                   n_krcv_queues, oob, proc, attached, armed, held,
                   lock, pc, found>>

(***************************************************************************)
(* Process affinity.                                                       *)
(***************************************************************************)
find_hw_thread_mask(hw_thread_no) ==
    LET num_cores_per_socket ==
            (num_online_cpus \div num_core_siblings) \div num_online_nodes
        n == num_cores_per_socket * num_online_nodes
        m0 == proc.mask
    IN  IF num_core_siblings > 0
        THEN LET possible == cpumask_weight(m0)
                 curr_cpu == NextCpus(cpumask_first(m0), n, m0)
                 m1 == ClearCpus(curr_cpu, possible - n, m0)
             IN  cpumask_shift_left(m1, n * hw_thread_no)
        ELSE m0

\* a plausible bug: the loop stops at the HW thread number it starts with
hw_thread_no_loop(i, used) == find_hw_thread_mask(i)

\* the loop over the HW thread numbers, from number i on
RECURSIVE hw_thread_loop(_, _)
hw_thread_loop(i, used) ==
    LET hw_thread_mask == find_hw_thread_mask(i)
    IN  IF (hw_thread_mask \ used) # {} \/ i + 1 >= num_core_siblings
        THEN hw_thread_mask
        ELSE hw_thread_loop(i + 1, used)

\* a plausible bug: the CPU of the general interrupt is left out
intrs_mask_no_general(node) ==
    LET idx == node_affinity_lookup(list, node)
    IN  IF idx = 0 THEN {}
        ELSE (IF list[idx].def_intr.gen # 0 THEN list[idx].def_intr.mask
              ELSE list[idx].def_intr.used)
             \cup (IF list[idx].rcv_intr.gen # 0 THEN list[idx].rcv_intr.mask
                   ELSE list[idx].rcv_intr.used)

\* the CPUs occupied by the interrupt handlers of the node
intrs_mask_of(node) ==
    LET idx == node_affinity_lookup(list, node)
    IN  IF idx = 0 THEN {}
        ELSE LET entry == list[idx]
             IN  (IF entry.def_intr.gen # 0 THEN entry.def_intr.mask
                  ELSE entry.def_intr.used)
                 \cup (IF entry.rcv_intr.gen # 0 THEN entry.rcv_intr.mask
                       ELSE entry.rcv_intr.used)
                 \cup entry.general_intr_mask

\* the locked section of hfi1_get_proc_affinity: the CPU and the set after
proc_search(set, node) ==
    LET s1 == IF set.mask = set.used
              THEN [set EXCEPT !.gen = @ + 1, !.used = {}]
              ELSE set
        intrs_mask == intrs_mask_of(node)
        hw_thread_mask == IF num_core_siblings > 0
                          THEN hw_thread_loop(0, s1.used)
                          ELSE s1.mask
        node_mask == cpumask_of_node(node)
        avail0 == (hw_thread_mask \cap node_mask) \ s1.used
        avail1 == IF (avail0 \ intrs_mask) # {}
                  THEN avail0 \ intrs_mask ELSE avail0
        other0 == (hw_thread_mask \ s1.used) \ node_mask
        other1 == IF (other0 \ intrs_mask) # {}
                  THEN other0 \ intrs_mask ELSE other0
        available_mask == IF avail1 = {} THEN other1 ELSE avail1
        cpu == cpumask_first(available_mask)
    IN  IF cpu >= nr_cpu_ids
        THEN [cpu |-> -1, set |-> s1]
        ELSE [cpu |-> cpu, set |-> [s1 EXCEPT !.used = cpumask_set_cpu(cpu, @)]]

RECURSIVE SumHeld(_)
SumHeld(S) ==
    IF S = {} THEN 0
    ELSE LET c == Min(S) IN held[c] + SumHeld(S \ {c})

OpenContexts == SumHeld(DOMAIN held)

\* the affinity masks a calling task may have: pinned to one online CPU,
\* restricted to the CPUs 0 .. k, or free to run on every CPU
ProcMasks ==
    {{c} : c \in cpu_online_mask}
        \cup {0 .. k : k \in 1 .. (nr_cpu_ids - 1)}

\* lines 626-637: the scratch masks hfi1_get_proc_affinity has allocated
\* when the fail_at-th zalloc_cpumask_var fails (0: none fails)
proc_scratch_allocated(fail_at) == IF fail_at = 0 THEN 4 ELSE fail_at - 1

\* lines 751-758: the free_cpumask_var calls between the label the call
\* jumps to (done, free_diff, free_hw_thread_mask, free_available_mask) or
\* falls into (after mutex_unlock) and the return
proc_scratch_freed(fail_at) ==
    CASE fail_at = 0 -> 4
      [] fail_at = 1 -> 0
      [] fail_at = 2 -> 1
      [] fail_at = 3 -> 2
      [] fail_at = 4 -> 3

\* a plausible bug: the operands of the last cpumask_or are exchanged and
\* the interrupt CPUs are collected in the general mask of the entry
intrs_entry_written(l, node) ==
    LET idx == node_affinity_lookup(l, node)
    IN  IF idx = 0 THEN l
        ELSE [l EXCEPT ![idx].general_intr_mask = intrs_mask_of(node)]

\* lines 652-662: the list after the interrupt CPUs of the node were
\* collected.  The masks of the entry are source operands of cpumask_copy
\* and cpumask_or; the destination is the scratch mask intrs_mask.
intrs_entry_after(l, node) == l

hfi1_get_proc_affinity(node, proc_mask, alloc_ok) ==
    /\ OpenContexts < MaxProc
    /\ IF cpumask_weight(proc_mask) = 1
       THEN LET cpu == cpumask_first(proc_mask)
            IN  /\ proc' = [proc EXCEPT !.used = cpumask_set_cpu(cpu, @)]
                /\ held' = [held EXCEPT ![cpu] = @ + 1]
                /\ UNCHANGED <<list, scratch>>
       ELSE IF cpumask_weight(proc_mask) < cpumask_weight(proc.mask)
       THEN /\ held' = [held EXCEPT ![-1] = @ + 1]
            /\ UNCHANGED <<list, proc, scratch>>
       ELSE IF ~alloc_ok
       THEN /\ held' = [held EXCEPT ![-1] = @ + 1]
            /\ \E fail_at \in 1 .. 4 :
                   scratch' = scratch + proc_scratch_allocated(fail_at)
                                      - proc_scratch_freed(fail_at)
            /\ UNCHANGED <<list, proc>>
       ELSE LET got == proc_search(proc, node)
            IN  /\ ~AtMaxGen(proc)
                /\ proc' = got.set
                /\ list' = intrs_entry_after(list, node)
                /\ held' = [held EXCEPT ![got.cpu] = @ + 1]
                /\ scratch' = scratch + proc_scratch_allocated(0)
                                      - proc_scratch_freed(0)
    /\ UNCHANGED <<acq, crit, topo,
                   n_krcv_queues, oob, attached, msix_mask, armed,
                   sde_cpu, moves, lock, pc, found>>

\* a plausible bug: the release clears the CPU and never refills the pool
proc_put_no_reset(set, cpu) ==
    [set EXCEPT !.used = cpumask_clear_cpu(cpu, @)]

\* hfi1_put_proc_affinity, the locked section
proc_put(set, cpu) ==
    LET used == cpumask_clear_cpu(cpu, set.used)
    IN  IF used = {} /\ set.gen # 0
        THEN [set EXCEPT !.gen = @ - 1, !.used = set.mask]
        ELSE [set EXCEPT !.used = used]

hfi1_put_proc_affinity(cpu) ==
    /\ held[cpu] > 0
    /\ proc' = IF cpu < 0 THEN proc ELSE proc_put(proc, cpu)
    /\ held' = [held EXCEPT ![cpu] = @ - 1]
    /\ UNCHANGED <<acq, scratch, crit, topo,
                   n_krcv_queues, oob, list, attached, msix_mask, armed,
                   sde_cpu, moves, lock, pc, found>>

(***************************************************************************)
(* The locked sections of hfi1_get_proc_affinity and                       *)
(* hfi1_put_proc_affinity step by step.  A task pinned to one CPU does not *)
(* take node_affinity.lock: its cpumask_set_cpu (an atomic set_bit) can    *)
(* fall between any two accesses the task holding the lock makes to        *)
(* set->used.  One step is one access to set->used together with the work  *)
(* on locals that follows it.  crit.start and crit.held0 remember the pool *)
(* and the open contexts at mutex_lock.                                    *)
(***************************************************************************)
\* no task is inside a locked section that runs step by step
NoTask ==
    [op |-> "none", pc |-> "none", node |-> 0, cpu |-> -1, flag |-> FALSE,
     i |-> 0, hw_thread_mask |-> {}, available_mask |-> {},
     start |-> init_cpu_mask_set, held0 |-> << >>]

\* lines 626-639: a task that is neither pinned nor restricted has
\* allocated its four scratch masks and takes the lock
search_mutex_lock(node) ==
    /\ crit.op = "none"
    /\ mutex_is_unlocked
    /\ OpenContexts < MaxProc
    /\ lock' = -1
    /\ scratch' = scratch + proc_scratch_allocated(0)
    /\ crit' = [NoTask EXCEPT !.op = "search", !.pc = "equal", !.node = node,
                              !.start = proc, !.held0 = held]
    /\ UNCHANGED <<acq, topo, n_krcv_queues, oob, list, proc, attached, msix_mask,
                   armed, sde_cpu, held, moves, pc, found>>

\* line 644: cpumask_equal(&set->mask, &set->used)
search_equal ==
    /\ crit.op = "search"
    /\ crit.pc = "equal"
    /\ crit' = [crit EXCEPT !.flag = (proc.mask = proc.used), !.pc = "reset"]
    /\ UNCHANGED <<acq, scratch, topo, n_krcv_queues, oob, list, proc, attached, msix_mask,
                   armed, sde_cpu, held, moves, lock, pc, found>>

\* lines 645-666: the reset, if the sets were equal
search_reset ==
    /\ crit.op = "search"
    /\ crit.pc = "reset"
    /\ crit.flag => proc.gen < MaxGen
    /\ proc' = IF crit.flag THEN [proc EXCEPT !.gen = @ + 1, !.used = {}]
               ELSE proc
    /\ crit' = [crit EXCEPT !.hw_thread_mask = proc.mask, !.i = 0,
                            !.pc = IF num_core_siblings > 0 THEN "hw_thread"
                                   ELSE "available"]
    /\ UNCHANGED <<acq, scratch, topo, n_krcv_queues, oob, list, attached, msix_mask,
                   armed, sde_cpu, held, moves, lock, pc, found>>

\* lines 673-687: one round of the loop over the HW thread numbers
search_hw_thread ==
    /\ crit.op = "search"
    /\ crit.pc = "hw_thread"
    /\ LET hw_thread_mask == find_hw_thread_mask(crit.i)
           diff == hw_thread_mask \ proc.used
       IN  crit' = [crit EXCEPT
                       !.hw_thread_mask = hw_thread_mask,
                       !.i = @ + 1,
                       !.pc = IF diff # {} \/ crit.i + 1 >= num_core_siblings
                              THEN "available" ELSE "hw_thread"]
    /\ UNCHANGED <<acq, scratch, topo, n_krcv_queues, oob, list, proc, attached, msix_mask,
                   armed, sde_cpu, held, moves, lock, pc, found>>

\* lines 692-720: the available CPUs of the preferred node
search_available ==
    /\ crit.op = "search"
    /\ crit.pc = "available"
    /\ LET node_mask == cpumask_of_node(crit.node)
           intrs_mask == intrs_mask_of(crit.node)
           avail0 == (crit.hw_thread_mask \cap node_mask) \ proc.used
           avail1 == IF (avail0 \ intrs_mask) # {}
                     THEN avail0 \ intrs_mask ELSE avail0
       IN  crit' = [crit EXCEPT !.available_mask = avail1,
                                !.pc = IF avail1 = {} THEN "other"
                                       ELSE "pick"]
    /\ UNCHANGED <<acq, scratch, topo, n_krcv_queues, oob, list, proc, attached, msix_mask,
                   armed, sde_cpu, held, moves, lock, pc, found>>

\* lines 723-738: the available CPUs of the other nodes
search_other ==
    /\ crit.op = "search"
    /\ crit.pc = "other"
    /\ LET node_mask == cpumask_of_node(crit.node)
           intrs_mask == intrs_mask_of(crit.node)
           other0 == (crit.hw_thread_mask \ proc.used) \ node_mask
           other1 == IF (other0 \ intrs_mask) # {}
                     THEN other0 \ intrs_mask ELSE other0
       IN  crit' = [crit EXCEPT !.available_mask = other1, !.pc = "pick"]
    /\ UNCHANGED <<acq, scratch, topo, n_krcv_queues, oob, list, proc, attached, msix_mask,
                   armed, sde_cpu, held, moves, lock, pc, found>>

\* a plausible bug: the CPU is returned without being marked used
search_pick_unmarked(set, available_mask) ==
    LET cpu == cpumask_first(available_mask)
    IN  IF cpu >= nr_cpu_ids THEN [cpu |-> -1, set |-> set]
        ELSE [cpu |-> cpu, set |-> set]

\* lines 742-746: the CPU returned and the set after
search_pick_cpu(set, available_mask) ==
    LET cpu == cpumask_first(available_mask)
    IN  IF cpu >= nr_cpu_ids THEN [cpu |-> -1, set |-> set]
        ELSE [cpu |-> cpu, set |-> [set EXCEPT
                                       !.used = cpumask_set_cpu(cpu, @)]]

search_pick ==
    /\ crit.op = "search"
    /\ crit.pc = "pick"
    /\ LET got == search_pick_cpu(proc, crit.available_mask)
       IN  /\ proc' = got.set
           /\ crit' = [crit EXCEPT !.cpu = got.cpu, !.pc = "unlock"]
    /\ UNCHANGED <<acq, scratch, topo, n_krcv_queues, oob, list, attached, msix_mask,
                   armed, sde_cpu, held, moves, lock, pc, found>>

\* line 770: the task closing a context that was given CPU cpu takes the lock
put_mutex_lock(cpu) ==
    /\ crit.op = "none"
    /\ mutex_is_unlocked
    /\ cpu >= 0
    /\ held[cpu] > 0
    /\ lock' = -1
    /\ held' = [held EXCEPT ![cpu] = @ - 1]
    /\ crit' = [NoTask EXCEPT !.op = "put", !.pc = "clear", !.cpu = cpu,
                              !.start = proc, !.held0 = held']
    /\ UNCHANGED <<acq, scratch, topo, n_krcv_queues, oob, list, proc, attached, msix_mask,
                   armed, sde_cpu, moves, pc, found>>

\* line 771: cpumask_clear_cpu(cpu, &set->used)
put_clear ==
    /\ crit.op = "put"
    /\ crit.pc = "clear"
    /\ proc' = [proc EXCEPT !.used = cpumask_clear_cpu(crit.cpu, @)]
    /\ crit' = [crit EXCEPT !.pc = "empty"]
    /\ UNCHANGED <<acq, scratch, topo, n_krcv_queues, oob, list, attached, msix_mask,
                   armed, sde_cpu, held, moves, lock, pc, found>>

\* line 773: cpumask_empty(&set->used) && set->gen
put_empty ==
    /\ crit.op = "put"
    /\ crit.pc = "empty"
    /\ crit' = [crit EXCEPT !.flag = (proc.used = {} /\ proc.gen # 0),
                            !.pc = "refill"]
    /\ UNCHANGED <<acq, scratch, topo, n_krcv_queues, oob, list, proc, attached, msix_mask,
                   armed, sde_cpu, held, moves, lock, pc, found>>

\* lines 774-775: the refill, if used was empty
put_refill ==
    /\ crit.op = "put"
    /\ crit.pc = "refill"
    /\ proc' = IF crit.flag THEN [proc EXCEPT !.gen = @ - 1, !.used = proc.mask]
               ELSE proc
    /\ crit' = [crit EXCEPT !.pc = "unlock"]
    /\ UNCHANGED <<acq, scratch, topo, n_krcv_queues, oob, list, attached, msix_mask,
                   armed, sde_cpu, held, moves, lock, pc, found>>

\* lines 748 and 777: mutex_unlock
task_mutex_unlock ==
    /\ crit.pc = "unlock"
    /\ lock' = 0
    /\ crit' = [crit EXCEPT !.pc = "done"]
    /\ UNCHANGED <<acq, scratch, topo, n_krcv_queues, oob, list, proc, attached, msix_mask,
                   armed, sde_cpu, held, moves, pc, found>>

\* lines 751-759 and 778: the search frees its scratch masks; the call
\* returns
task_return ==
    /\ crit.pc = "done"
    /\ held' = IF crit.op = "search" THEN [held EXCEPT ![crit.cpu] = @ + 1]
               ELSE held
    /\ scratch' = IF crit.op = "search"
                  THEN scratch - proc_scratch_freed(0) ELSE scratch
    /\ crit' = NoTask
    /\ UNCHANGED <<acq, topo, n_krcv_queues, oob, list, proc, attached, msix_mask,
                   armed, sde_cpu, moves, lock, pc, found>>

\* lines 587-597: a task pinned to cpu calls hfi1_get_proc_affinity while
\* another task is inside a locked section
pinned_fast_path(node, cpu) ==
    /\ crit.pc \notin {"none", "done"}
    /\ OpenContexts + (IF crit.op = "search" THEN 1 ELSE 0) < MaxProc
    /\ hfi1_get_proc_affinity(node, {cpu}, TRUE)

(***************************************************************************)
(* hfi1_get_irq_affinity as a thread: thread t acquires vectors of device  *)
(* t.  It takes node_affinity.lock, runs get_irq_affinity one access to    *)
(* the pool at a time and drops the lock.  acq[t].start is the pool the    *)
(* vector draws from as it was when the call began; first tells that no    *)
(* other call was under way then and joined that another call began before *)
(* this one had returned.  A finished call stays visible (pc = "done")     *)
(* until acq_return.  A thread begins a call next to at most one other     *)
(* call, which has not been joined before: the calls that overlap come in  *)
(* pairs.                                                                  *)
(***************************************************************************)
\* thread t is in no call
NoAcq ==
    [pc |-> "idle", i |-> 0, ret |-> 0, cpu |-> -1, first |-> FALSE,
     joined |-> FALSE, start |-> init_cpu_mask_set]

\* the threads that are inside a call or have not yet left it
AcqActive == {t \in Devs : acq[t].pc # "idle"}

\* the entry of the node of device d
entry_of(d) == list[node_affinity_lookup(list, dd_node(d))]

\* the list with pool set in place of the pool vector i of device d draws from
list_with(d, i, set) ==
    [list EXCEPT ![node_affinity_lookup(list, dd_node(d))] =
                     with_set(@, set_of(d, i), set)]

\* line 493: thread d calls hfi1_get_irq_affinity for its vector i
acq_enter(d, i) ==
    /\ acq[d].pc = "idle"
    /\ d \in attached
    /\ msix_type(d, i) \in IrqTypes
    /\ i \notin armed[d]
    /\ HasVector(d, i)
    /\ ArmedVectors + Cardinality({t \in AcqActive : acq[t].pc # "done"})
           < MaxArmed
    /\ \A t \in AcqActive : acq[t].first /\ ~acq[t].joined
    /\ Cardinality(AcqActive) <= 1
    /\ acq' = [t \in Devs |->
                  IF t = d
                  THEN [NoAcq EXCEPT
                           !.pc = "mutex_lock", !.i = i,
                           !.first = (AcqActive = {}),
                           !.start = IF set_of(d, i) = "none"
                                     THEN init_cpu_mask_set
                                     ELSE set_in(list, d, i)]
                  ELSE IF t \in AcqActive
                  THEN [acq[t] EXCEPT !.joined = TRUE]
                  ELSE acq[t]]
    /\ UNCHANGED <<scratch, crit, topo, n_krcv_queues, oob, list, proc,
                   attached, msix_mask, armed, sde_cpu, held, moves, lock, pc,
                   found>>

\* lines 493 and 425-453: mutex_lock returns; the mask of the vector is
\* cleared, diff is allocated and the switch selects the pool or the CPU
acq_mutex_lock(d, alloc_ok) ==
    /\ acq[d].pc = "mutex_lock"
    /\ mutex_is_unlocked
    /\ lock' = d
    /\ msix_mask' = [msix_mask EXCEPT ![d][acq[d].i] = {}]
    /\ IF ~alloc_ok
       THEN /\ acq' = [acq EXCEPT ![d].ret = -ENOMEM, ![d].pc = "mutex_unlock"]
            /\ UNCHANGED scratch
       ELSE /\ scratch' = scratch + 1
            /\ acq' = IF set_of(d, acq[d].i) = "none"
                      THEN [acq EXCEPT
                               ![d].cpu = cpumask_first(
                                              entry_of(d).general_intr_mask),
                               ![d].pc = "hint"]
                      ELSE [acq EXCEPT ![d].pc = "equal"]
    /\ UNCHANGED <<crit, topo, n_krcv_queues, oob, list, proc, attached, armed,
                   sde_cpu, held, moves, pc, found>>

\* lines 461-468: the wraparound, if every CPU of the pool is used
acq_equal(d) ==
    /\ acq[d].pc = "equal"
    /\ LET set == set_in(list, d, acq[d].i)
       IN  /\ ~AtMaxGen(set)
           /\ list' = IF set.mask = set.used
                      THEN list_with(d, acq[d].i,
                                     [set EXCEPT !.gen = @ + 1, !.used = {}])
                      ELSE list
    /\ acq' = [acq EXCEPT ![d].pc = "first"]
    /\ UNCHANGED <<scratch, crit, topo, n_krcv_queues, oob, proc, attached,
                   msix_mask, armed, sde_cpu, held, moves, lock, pc, found>>

\* lines 469-470: the first CPU of the pool that is not used
acq_first_cpu(set) == cpumask_first(set.mask \ set.used)

acq_first(d) ==
    /\ acq[d].pc = "first"
    /\ acq' = [acq EXCEPT
                  ![d].cpu = acq_first_cpu(set_in(list, d, acq[d].i)),
                  ![d].pc = "set"]
    /\ UNCHANGED <<scratch, crit, topo, n_krcv_queues, oob, list, proc,
                   attached, msix_mask, armed, sde_cpu, held, moves, lock, pc,
                   found>>

\* line 471: the CPU is marked used
acq_set(d) ==
    /\ acq[d].pc = "set"
    /\ LET set == set_in(list, d, acq[d].i)
       IN  list' = list_with(d, acq[d].i,
                             [set EXCEPT
                                 !.used = cpumask_set_cpu(acq[d].cpu, @)])
    /\ acq' = [acq EXCEPT ![d].pc = "hint"]
    /\ UNCHANGED <<scratch, crit, topo, n_krcv_queues, oob, proc, attached,
                   msix_mask, armed, sde_cpu, held, moves, lock, pc, found>>

\* lines 474-483: the mask of the vector, the hint and the notifier
acq_hint(d) ==
    /\ acq[d].pc = "hint"
    /\ msix_mask' = [msix_mask EXCEPT
                        ![d][acq[d].i] = cpumask_set_cpu(acq[d].cpu, {})]
    /\ armed' = [armed EXCEPT ![d] = @ \cup {acq[d].i}]
    /\ sde_cpu' = IF msix_type(d, acq[d].i) = "IRQ_SDMA"
                  THEN [sde_cpu EXCEPT ![d][msix_arg(d, acq[d].i)] = acq[d].cpu]
                  ELSE sde_cpu
    /\ acq' = [acq EXCEPT ![d].pc = "mutex_unlock"]
    /\ UNCHANGED <<scratch, crit, topo, n_krcv_queues, oob, list, proc,
                   attached, held, moves, lock, pc, found>>

\* lines 485-486 and 495: diff is freed and the lock dropped
acq_mutex_unlock(d) ==
    /\ acq[d].pc = "mutex_unlock"
    /\ scratch' = IF acq[d].ret = 0 THEN scratch - 1 ELSE scratch
    /\ lock' = 0
    /\ acq' = [acq EXCEPT ![d].pc = "done"]
    /\ UNCHANGED <<crit, topo, n_krcv_queues, oob, list, proc, attached,
                   msix_mask, armed, sde_cpu, held, moves, pc, found>>

\* line 496: the call returns
acq_return(d) ==
    /\ acq[d].pc = "done"
    /\ acq' = [acq EXCEPT ![d] = NoAcq]
    /\ UNCHANGED <<scratch, crit, topo, n_krcv_queues, oob, list, proc,
                   attached, msix_mask, armed, sde_cpu, held, moves, lock, pc,
                   found>>

(***************************************************************************)
(* The specification: one handler call per step.                           *)
(***************************************************************************)
\* the values dd->n_krcv_queues is given: the control context alone, or
\* with one or two further kernel receive contexts
KrcvQueues == {1, 2, 3}

\* the state after node_affinity_init on one of the machines, every device
\* having one of the numbers queues of kernel receive queues
InitOn(machines, queues) ==
    /\ topo \in machines
    /\ n_krcv_queues \in [Devs -> queues]
    /\ oob \in BOOLEAN
    /\ list = << >>
    /\ proc = node_affinity_init_proc
    /\ attached = {}
    /\ msix_mask = [d \in Devs |-> [i \in Vectors(d) |-> {}]]
    /\ armed = [d \in Devs |-> {}]
    /\ sde_cpu = [d \in Devs |-> [e \in SdmaEngines(d) |-> -1]]
    /\ held = [c \in -1 .. (nr_cpu_ids - 1) |-> 0]
    /\ moves = 0
    /\ lock = 0
    /\ pc = [t \in Devs |-> "idle"]
    /\ found = [t \in Devs |-> 0]
    /\ crit = NoTask
    /\ acq = [t \in Devs |-> NoAcq]
    /\ scratch = 0

Init == InitOn(SmallMachines, KrcvQueues)

NextIrq ==
    \/ \E d \in Devs, ok \in BOOLEAN : hfi1_dev_affinity_init(d, ok)
    \/ \E d \in Devs, ok \in BOOLEAN : \E i \in Vectors(d) :
           hfi1_get_irq_affinity(d, i, ok)
    \/ \E d \in Devs : \E i \in Vectors(d) : hfi1_put_irq_affinity(d, i)
    \/ \E d \in Devs, cpu \in 0 .. (nr_cpu_ids - 1) : \E i \in Vectors(d) :
           hfi1_irq_notifier_notify(d, i, cpu)

NextProc ==
    \/ \E node \in Nodes, m \in ProcMasks, ok \in BOOLEAN :
           hfi1_get_proc_affinity(node, m, ok)
    \/ \E cpu \in -1 .. (nr_cpu_ids - 1) : hfi1_put_proc_affinity(cpu)

Next == NextIrq \/ NextProc

\* the IRQ handlers without release and reassignment
NextFresh ==
    \/ \E d \in Devs, ok \in BOOLEAN : hfi1_dev_affinity_init(d, ok)
    \/ \E d \in Devs, ok \in BOOLEAN : \E i \in Vectors(d) :
           hfi1_get_irq_affinity(d, i, ok)

NextAttach == \E d \in Devs, ok \in BOOLEAN : hfi1_dev_affinity_init(d, ok)

\* hfi1_dev_affinity_init called from one thread per device
NextConc ==
    \/ \E t \in Devs : attach_enter(t)
    \/ \E t \in Devs : attach_mutex_lock(t)
    \/ \E t \in Devs : attach_lookup(t)
    \/ \E t \in Devs, ok \in BOOLEAN : attach_create(t, ok)
    \/ \E t \in Devs : attach_mutex_unlock(t)

Spec == Init /\ [][Next]_vars

InitIrq == InitOn(IrqMachines, KrcvQueues)
SpecIrq == InitIrq /\ [][NextIrq]_vars

InitFresh == InitOn(FreshMachines, KrcvQueues)
SpecFresh == InitFresh /\ [][NextFresh]_vars

InitAttach == InitOn(AttachMachines, KrcvQueues)
SpecAttach == InitAttach /\ [][NextAttach]_vars

InitConc == InitOn(ConcMachines, KrcvQueues)
SpecConc == InitConc /\ [][NextConc]_vars

InitProc == InitOn(ProcMachines, {2})
SpecProc == InitProc /\ [][Next]_vars

\* the callers of zalloc_cpumask_var, on devices that have a vector of a
\* type get_irq_affinity does not know
ScratchMachines == {OneDevOther, TwoNodeOther}

NextScratch ==
    \/ \E d \in Devs, ok \in BOOLEAN : hfi1_dev_affinity_init(d, ok)
    \/ \E d \in Devs, ok \in BOOLEAN : \E i \in Vectors(d) :
           hfi1_get_irq_affinity(d, i, ok)
    \/ \E d \in Devs : \E i \in Vectors(d) : hfi1_put_irq_affinity(d, i)
    \/ \E node \in Nodes, m \in ProcMasks, ok \in BOOLEAN :
           hfi1_get_proc_affinity(node, m, ok)
    \/ \E cpu \in -1 .. (nr_cpu_ids - 1) : hfi1_put_proc_affinity(cpu)

InitScratch == InitOn(ScratchMachines, {2})
SpecScratch == InitScratch /\ [][NextScratch]_vars

\* hfi1_get_irq_affinity called from one thread per device, attach and
\* release running while no acquire is under way
AcqMachines == {TwoDev3Sdma, TwoDev4}

NextAcq ==
    \/ \E d \in Devs, ok \in BOOLEAN :
           AcqActive = {} /\ mutex_is_unlocked /\ hfi1_dev_affinity_init(d, ok)
    \/ \E d \in Devs : \E i \in Vectors(d) :
           AcqActive = {} /\ mutex_is_unlocked /\ hfi1_put_irq_affinity(d, i)
    \/ \E d \in Devs : \E i \in Vectors(d) : acq_enter(d, i)
    \/ \E d \in Devs, ok \in BOOLEAN : acq_mutex_lock(d, ok)
    \/ \E d \in Devs : acq_equal(d)
    \/ \E d \in Devs : acq_first(d)
    \/ \E d \in Devs : acq_set(d)
    \/ \E d \in Devs : acq_hint(d)
    \/ \E d \in Devs : acq_mutex_unlock(d)
    \/ \E d \in Devs : acq_return(d)

InitAcq == InitOn(AcqMachines, {1, 2})
SpecAcq == InitAcq /\ [][NextAcq]_vars

\* hfi1_dev_affinity_init as threads that wait for node_affinity.lock, next
\* to IRQ acquires and releases, an acquire being possible before the
\* device has attached.  The scheduler is fair: a thread that can take a
\* step of its call takes it, and a thread that waits in mutex_lock gets
\* the lock if the lock is free again and again.
LiveMachines == {TwoDev3, ThreeDev4}
LiveThreads == {1, 2, 3}

NextLive ==
    \/ \E t \in Devs : attach_enter(t)
    \/ \E t \in Devs : attach_mutex_lock(t)
    \/ \E t \in Devs : attach_lookup(t)
    \/ \E t \in Devs, ok \in BOOLEAN : attach_create(t, ok)
    \/ \E t \in Devs : attach_mutex_unlock(t)
    \/ \E d \in Devs, ok \in BOOLEAN : \E i \in Vectors(d) :
           mutex_is_unlocked /\ pc[d] = "idle"
               /\ hfi1_get_irq_affinity(d, i, ok)
    \/ \E d \in Devs, ok \in BOOLEAN : \E i \in Vectors(d) :
           mutex_is_unlocked /\ hfi1_get_irq_affinity_null_entry(d, i, ok)
    \/ \E d \in Devs : \E i \in Vectors(d) :
           mutex_is_unlocked /\ hfi1_put_irq_affinity(d, i)

FairLive ==
    \A t \in LiveThreads :
        /\ SF_vars(t \in Devs /\ attach_mutex_lock(t))
        /\ WF_vars(t \in Devs /\ attach_lookup(t))
        /\ WF_vars(t \in Devs /\ \E ok \in BOOLEAN : attach_create(t, ok))
        /\ WF_vars(t \in Devs /\ attach_mutex_unlock(t))

InitLive == InitOn(LiveMachines, {1, 2})
SpecLive == InitLive /\ [][NextLive]_vars /\ FairLive

\* the IRQ handlers, the notifier being handed every value cpumask_first()
\* can produce for the new mask: a CPU id, or, for a mask without a bit,
\* nr_cpumask_bits, which is nr_cpu_ids (CONFIG_CPUMASK_OFFSTACK) or the
\* larger NR_CPUS, here nr_cpu_ids + 1
NotifyMachines == {TwoDev3Sdma, OneDevUP}

NextNotify ==
    \/ \E d \in Devs, ok \in BOOLEAN : hfi1_dev_affinity_init(d, ok)
    \/ \E d \in Devs, ok \in BOOLEAN : \E i \in Vectors(d) :
           hfi1_get_irq_affinity(d, i, ok)
    \/ \E d \in Devs : \E i \in Vectors(d) : hfi1_put_irq_affinity(d, i)
    \/ \E d \in Devs, cpu \in 0 .. (nr_cpu_ids + 1) : \E i \in Vectors(d) :
           hfi1_irq_notifier_notify(d, i, cpu)

InitNotify == InitOn(NotifyMachines, KrcvQueues)
SpecNotify == InitNotify /\ [][NextNotify]_vars

\* attach and the process handlers; the locked sections of the process
\* handlers run either in one step or step by step with the fast path of
\* pinned tasks in between
RaceMachines == {TwoNodeUP, TwoNodeHT, OddHT}

NextRace ==
    \/ \E d \in Devs, ok \in BOOLEAN :
           crit.op = "none" /\ hfi1_dev_affinity_init(d, ok)
    \/ \E node \in Nodes, m \in ProcMasks, ok \in BOOLEAN :
           crit.op = "none" /\ hfi1_get_proc_affinity(node, m, ok)
    \/ \E cpu \in -1 .. (nr_cpu_ids - 1) :
           crit.op = "none" /\ hfi1_put_proc_affinity(cpu)
    \/ \E node \in Nodes : search_mutex_lock(node)
    \/ search_equal
    \/ search_reset
    \/ search_hw_thread
    \/ search_available
    \/ search_other
    \/ search_pick
    \/ \E cpu \in cpu_online_mask : put_mutex_lock(cpu)
    \/ put_clear
    \/ put_empty
    \/ put_refill
    \/ task_mutex_unlock
    \/ task_return
    \/ \E node \in Nodes, cpu \in cpu_online_mask : pinned_fast_path(node, cpu)

InitRace == InitOn(RaceMachines, {2})
SpecRace == InitRace /\ [][NextRace]_vars

\* attach, acquire and release: the user never changes an affinity
AcqRelMachines == {OneDev3, TwoDev3Sdma, OneDevHT, OneDevUP}

NextAcqRel ==
    \/ \E d \in Devs, ok \in BOOLEAN : hfi1_dev_affinity_init(d, ok)
    \/ \E d \in Devs, ok \in BOOLEAN : \E i \in Vectors(d) :
           hfi1_get_irq_affinity(d, i, ok)
    \/ \E d \in Devs : \E i \in Vectors(d) : hfi1_put_irq_affinity(d, i)

InitAcqRel == InitOn(AcqRelMachines, KrcvQueues)
SpecAcqRel == InitAcqRel /\ [][NextAcqRel]_vars

\* attach, acquire and release, the acquire being called for devices whose
\* node has no entry as well; every handler takes node_affinity.lock, so
\* none runs once a task has died with the lock taken
EarlyMachines == {OneDev3, TwoDev3, ThreeDev4}

NextEarly ==
    \/ \E d \in Devs, ok \in BOOLEAN :
           mutex_is_unlocked /\ hfi1_dev_affinity_init(d, ok)
    \/ \E d \in Devs, ok \in BOOLEAN : \E i \in Vectors(d) :
           mutex_is_unlocked /\ hfi1_get_irq_affinity(d, i, ok)
    \/ \E d \in Devs, ok \in BOOLEAN : \E i \in Vectors(d) :
           mutex_is_unlocked /\ hfi1_get_irq_affinity_null_entry(d, i, ok)
    \/ \E d \in Devs : \E i \in Vectors(d) :
           mutex_is_unlocked /\ hfi1_put_irq_affinity(d, i)

InitEarly == InitOn(EarlyMachines, KrcvQueues)
SpecEarly == InitEarly /\ [][NextEarly]_vars

(***************************************************************************)
(* Claims.                                                                 *)
(***************************************************************************)
Pools == {list[i].def_intr : i \in 1 .. Len(list)}
         \cup {list[i].rcv_intr : i \in 1 .. Len(list)}
         \cup {proc}

\* C1: after any sequence of attach, IRQ acquire, IRQ release, reassignment,
\* process advise and process release, every pool (the default and the
\* receive pool of every node entry, and the process pool) has used \subseteq
\* mask.
C1_UsedWithinMask == \A set \in Pools : set.used \subseteq set.mask

\* the step acquires pool vector i of device d
AcquiresFromPool(d, i) ==
    /\ set_of(d, i) # "none"
    /\ hfi1_get_irq_affinity(d, i, TRUE)

ArmedOnPool(d, i) ==
    {v \in UNION {{<<e, j>> : j \in armed[e]} : e \in Devs} :
        /\ dd_node(v[1]) = dd_node(d)
        /\ set_of(v[1], v[2]) = set_of(d, i)}

\* the n-th lowest CPU of S, n = 1 for the lowest
NthLowest(S, n) == CHOOSE c \in S : Cardinality({x \in S : x < c}) = n - 1

\* C3: in a pool whose mask has k >= 1 CPUs and which has seen only acquires
\* since its attach, the n-th acquire (n <= k) returns the n-th lowest CPU of
\* the mask, a CPU no earlier acquire returned, and leaves the generation at
\* 0; the (k+1)-th acquire raises the generation by exactly 1 and returns the
\* lowest CPU of the mask.
C3_FreshPoolWraparound ==
    [][\A d \in Devs : \A i \in Vectors(d) :
          AcquiresFromPool(d, i) =>
              LET set == set_in(list, d, i)
                  after == set_in(list', d, i)
                  k == Cardinality(set.mask)
                  n == Cardinality(ArmedOnPool(d, i))
              IN  k >= 1 =>
                    /\ n < k =>
                         /\ msix_mask'[d][i] = {NthLowest(set.mask, n + 1)}
                         /\ \A v \in ArmedOnPool(d, i) :
                                msix_mask[v[1]][v[2]] # msix_mask'[d][i]
                         /\ set.gen = 0
                         /\ after.gen = 0
                    /\ n = k =>
                         /\ set.gen = 0
                         /\ after.gen = set.gen + 1
                         /\ msix_mask'[d][i] = {Min(set.mask)}]_vars

\* a pool of two CPUs after its third acquire
C3_Witness ==
    \E e \in 1 .. Len(list) :
        /\ Cardinality(list[e].def_intr.mask) = 2
        /\ list[e].def_intr.gen = 1
        /\ list[e].def_intr.used = {Min(list[e].def_intr.mask)}
        /\ \E d \in Devs : Cardinality(armed[d] \cap SdmaVectors(d)) = 3

\* the step releases pool vector i of device d, the only vector whose CPU is
\* in used, while the generation of the pool is not 0
ReleasesLast(d, i) ==
    /\ set_of(d, i) # "none"
    /\ hfi1_put_irq_affinity(d, i)
    /\ set_in(list, d, i).gen > 0
    /\ set_in(list, d, i).used # {}
    /\ set_in(list, d, i).used \subseteq msix_mask[d][i]

\* C4 as stated: releasing the last used CPU of a pool whose generation is
\* > 0 decrements the generation and sets used = mask, and the next acquire
\* from that state returns a single CPU and leaves used with exactly one
\* member less.
C4_IdleResetThenOneLess ==
    [][\A d \in Devs : \A i \in Vectors(d) :
          ReleasesLast(d, i) =>
              LET before == set_in(list, d, i)
                  reset == set_in(list', d, i)
                  next == get_irq_affinity(list', d, i)
                  after == set_in(next.list, d, i)
              IN  /\ reset.gen = before.gen - 1
                  /\ reset.used = reset.mask
                  /\ next.cpu < nr_cpu_ids
                  /\ after.used \subseteq reset.used
                  /\ Cardinality(after.used) = Cardinality(reset.used) - 1]_vars

\* C4 amended: releasing the last used CPU of a pool whose generation is > 0
\* decrements the generation and sets used = mask; when the mask is not
\* empty the next acquire from that state is a wraparound: it puts the
\* generation back up by one, returns the lowest CPU of the mask and leaves
\* used = {that CPU}.
C4_IdleResetThenWraparound ==
    [][\A d \in Devs : \A i \in Vectors(d) :
          ReleasesLast(d, i) =>
              LET before == set_in(list, d, i)
                  reset == set_in(list', d, i)
                  next == get_irq_affinity(list', d, i)
                  after == set_in(next.list, d, i)
              IN  /\ reset.gen = before.gen - 1
                  /\ reset.used = reset.mask
                  /\ reset.mask = before.mask
                  /\ reset.mask # {} =>
                         /\ next.cpu = Min(reset.mask)
                         /\ after.used = {next.cpu}
                         /\ after.gen = before.gen
                         /\ after.mask = before.mask]_vars

\* a pool with more than two CPUs that is full although none of its vectors
\* is armed: its last used CPU was released at a generation > 0
C4_Witness ==
    \E d \in attached : \E i \in Vectors(d) :
        /\ set_of(d, i) # "none"
        /\ ArmedOnPool(d, i) = {}
        /\ set_in(list, d, i).used = set_in(list, d, i).mask
        /\ Cardinality(set_in(list, d, i).mask) # 2
        /\ set_in(list, d, i).mask # {}

\* the step moves SDMA vector i of device d to cpu while another SDMA vector
\* of the device targets the CPU it leaves
MovesOffSharedCpu(d, i, cpu) ==
    /\ hfi1_irq_notifier_notify(d, i, cpu)
    /\ ~update_sdma_rejects(d, i, cpu)
    /\ other_sdma_uses(d, i, sde_cpu[d][msix_arg(d, i)])

\* C5: after a DMA vector of a device is reassigned from CPU A to CPU B while
\* a second DMA vector of the same device still targets A, A is a member of
\* the mask and of the used set of the default pool of the node.
C5_SharedCpuStaysInPool ==
    [][\A d \in Devs : \A i \in Vectors(d) : \A cpu \in 0 .. (nr_cpu_ids - 1) :
          MovesOffSharedCpu(d, i, cpu) =>
              LET A == sde_cpu[d][msix_arg(d, i)]
                  set == list'[node_affinity_lookup(list', dd_node(d))].def_intr
              IN  A \in set.mask /\ A \in set.used]_vars

\* the step attaches device d to a node that has an entry already
AttachesToKnownNode(d, ok) ==
    /\ node_affinity_lookup(list, dd_node(d)) # 0
    /\ hfi1_dev_affinity_init(d, ok)

\* C6: attaching a device to a node that already has an entry succeeds and
\* leaves the list, hence the general mask and both pools of the entry,
\* unchanged, whatever the n_krcv_queues of the device and whatever happened
\* to the entry since it was created.
C6_SecondAttachKeepsEntry ==
    [][\A d \in Devs : \A ok \in BOOLEAN :
          AttachesToKnownNode(d, ok) =>
              /\ d \in attached'
              /\ list' = list]_vars

\* two attached devices with different n_krcv_queues share an entry whose
\* default pool has wrapped
C6_Witness ==
    \E d1 \in attached : \E d2 \in attached :
        /\ d1 # d2
        /\ dd_node(d1) = dd_node(d2)
        /\ n_krcv_queues[d1] # n_krcv_queues[d2]
        /\ Len(list) = 1
        /\ list[1].def_intr.gen > 0

\* C7: the list holds at most one entry per NUMA node, also when the devices
\* of a node attach from concurrent threads.
C7_OneEntryPerNode ==
    \A i \in 1 .. Len(list) : \A j \in 1 .. Len(list) :
        list[i].node = list[j].node => i = j

\* a thread waits for the lock while the thread holding it has just created
\* the entry of their common node
C7_Witness ==
    \E t1 \in Devs : \E t2 \in Devs :
        /\ dd_node(t1) = dd_node(t2)
        /\ pc[t1] = "mutex_lock"
        /\ pc[t2] = "unlock"
        /\ lock = t2
        /\ found[t2] = 0
        /\ Len(list) >= 1

\* the step attaches device d, the first device of its node to attach
FirstAttach(d) ==
    /\ node_affinity_lookup(list, dd_node(d)) = 0
    /\ hfi1_dev_affinity_init(d, TRUE)

\* the devices homed on the node
DevicesOn(node) == {d \in Devs : dd_node(d) = node}

\* the n lowest CPUs of S
LowestN(S, n) == {c \in S : Cardinality({x \in S : x < c}) < n}

\* C8: the first attach on a node whose candidate set C has at least two
\* CPUs, with r = (n_krcv_queues - 1) * devices on the node, appends an entry
\* with general mask {min C}, receive mask the min(r, |C| - 1) lowest CPUs of
\* C above min C, default mask the remaining CPUs of C or the general mask if
\* none remain, and all used sets empty with generation 0; C = {2,4,6,8},
\* n_krcv_queues = 2 and one device give {2}, {4} and {6,8}.
C8_FirstAttachPartition ==
    [][\A d \in Devs :
          FirstAttach(d) =>
              LET C == def_mask0(d)
                  r == (n_krcv_queues[d] - 1)
                           * Cardinality(DevicesOn(dd_node(d)))
                  nrcv == IF r < Cardinality(C) - 1 THEN r
                          ELSE Cardinality(C) - 1
                  rcv == LowestN(C \ {Min(C)}, nrcv)
                  rest == C \ ({Min(C)} \cup rcv)
                  e == list'[Len(list')]
              IN  Cardinality(C) >= 2 =>
                    /\ list' = Append(list, e)
                    /\ e.node = dd_node(d)
                    /\ e.general_intr_mask = {Min(C)}
                    /\ e.rcv_intr = [mask |-> rcv, used |-> {}, gen |-> 0]
                    /\ e.def_intr =
                           [mask |-> IF rest = {} THEN {Min(C)} ELSE rest,
                            used |-> {}, gen |-> 0]
                    /\ (C = {2, 4, 6, 8} /\ r = 1) =>
                           /\ e.general_intr_mask = {2}
                           /\ e.rcv_intr.mask = {4}
                           /\ e.def_intr.mask = {6, 8}]_vars

\* the entry of the example
C8_Witness ==
    \E e \in 1 .. Len(list) :
        /\ list[e].general_intr_mask = {2}
        /\ list[e].rcv_intr.mask = {4}
        /\ list[e].def_intr.mask = {6, 8}

\* C9: the first attach on a node whose candidate set is a single CPU c
\* appends an entry with general mask = receive mask = default mask = {c},
\* for every n_krcv_queues and every number of devices on the node.
C9_SingleCpuNode ==
    [][\A d \in Devs :
          FirstAttach(d) =>
              LET C == def_mask0(d)
                  e == list'[Len(list')]
              IN  Cardinality(C) = 1 =>
                    /\ list' = Append(list, e)
                    /\ e.node = dd_node(d)
                    /\ e.general_intr_mask = C
                    /\ e.rcv_intr = [mask |-> C, used |-> {}, gen |-> 0]
                    /\ e.def_intr = [mask |-> C, used |-> {}, gen |-> 0]]_vars

\* the entry of a single-CPU node shared by two devices, created by a device
\* with three kernel receive queues
C9_Witness ==
    /\ Len(list) = 1
    /\ Cardinality(list[1].def_intr.mask) = 1
    /\ list[1].rcv_intr.mask = list[1].def_intr.mask
    /\ list[1].general_intr_mask = list[1].def_intr.mask
    /\ Cardinality(DevicesOn(list[1].node)) = 2
    /\ \A d \in DevicesOn(list[1].node) : n_krcv_queues[d] = 3
    /\ attached # {}

\* the step is the placement search for node on behalf of a task that is
\* neither pinned to one CPU nor restricted to fewer CPUs than the pool
SearchesFor(node, m) ==
    /\ held' # held
    /\ cpumask_weight(m) # 1
    /\ cpumask_weight(m) >= cpumask_weight(proc.mask)
    /\ hfi1_get_proc_affinity(node, m, TRUE)

\* the interrupt-occupied CPUs of the node
Occupied(node) ==
    LET hit == {e \in 1 .. Len(list) : list[e].node = node}
        sel(set) == IF set.gen # 0 THEN set.mask ELSE set.used
    IN  UNION {list[e].general_intr_mask \cup sel(list[e].def_intr)
                   \cup sel(list[e].rcv_intr) : e \in hit}

\* C10: the placement search for node N first resets the process pool if it
\* is fully used, then takes the lowest CPU of the first non-empty set among
\* (1) unused local slice CPUs that are not interrupt-occupied, (2) unused
\* local slice CPUs, (3) unused slice CPUs of other nodes that are not
\* interrupt-occupied, (4) unused slice CPUs of other nodes, and marks it
\* used; if all four are empty it returns -1 and leaves the used set as the
\* reset left it.  With an idle pool {0..7}, no hyperthreading and no entry
\* for node 0 = {0,1,2,3} the first call returns 0 and the second 1.
C10_PlacementTiers ==
    [][\A node \in Nodes : \A m \in ProcMasks :
          SearchesFor(node, m) =>
              LET p1 == IF proc.used = proc.mask
                        THEN [proc EXCEPT !.gen = @ + 1, !.used = {}]
                        ELSE proc
                  slice == hw_thread_loop(0, p1.used)
                  unused == slice \ p1.used
                  local == cpumask_of_node(node)
                  occ == Occupied(node)
                  t1 == (unused \cap local) \ occ
                  t2 == unused \cap local
                  t3 == (unused \ local) \ occ
                  t4 == unused \ local
                  pick == IF t1 # {} THEN t1 ELSE IF t2 # {} THEN t2
                          ELSE IF t3 # {} THEN t3 ELSE t4
              IN  /\ IF pick = {}
                     THEN /\ proc' = p1
                          /\ held' = [held EXCEPT ![-1] = @ + 1]
                     ELSE /\ proc' = [p1 EXCEPT !.used = @ \cup {Min(pick)}]
                          /\ held' = [held EXCEPT ![Min(pick)] = @ + 1]
                  /\ (/\ proc.mask = 0 .. 7
                      /\ num_core_siblings = 1
                      /\ proc.gen = 0
                      /\ cpumask_of_node(node) = {0, 1, 2, 3}
                      /\ Occupied(node) = {}) =>
                         /\ proc.used = {} => held'[0] = held[0] + 1
                         /\ proc.used = {0} => held'[1] = held[1] + 1]_vars

\* the example after its second call
C10_Witness ==
    /\ proc = [mask |-> 0 .. 7, used |-> {0, 1}, gen |-> 0]
    /\ held[0] = 1
    /\ held[1] = 1
    /\ list = << >>

\* the step is a notification for SDMA vector i of device d whose target is
\* not a CPU id of the system or is the CPU the vector is on
NotifiesBadTarget(d, i, cpu) ==
    /\ hfi1_irq_notifier_notify(d, i, cpu)
    /\ cpu >= nr_cpu_ids \/ cpu = sde_cpu[d][msix_arg(d, i)]

\* C11: a notification whose target CPU is out of range or equal to the
\* current CPU of the vector is rejected: sde->cpu, the mask of the vector
\* and the default pool of the node are unchanged by the call.
C11_BadTargetRejected ==
    [][\A d \in Devs : \A i \in Vectors(d) : \A cpu \in 0 .. (nr_cpu_ids + 1) :
          NotifiesBadTarget(d, i, cpu) =>
              /\ sde_cpu' = sde_cpu
              /\ msix_mask' = msix_mask
              /\ list' = list]_vars

\* C12: every successful acquire for an SDMA vector or a receive vector other
\* than the control context gives the vector exactly one CPU, a valid CPU id
\* that is a member of the mask of the pool it draws from; when the mask of
\* that pool is empty the acquire does not succeed.
C12_AcquireGivesPoolCpu ==
    [][\A d \in Devs : \A i \in Vectors(d) :
          (AcquiresFromPool(d, i) /\ i \in armed'[d]) =>
              LET set == set_in(list, d, i)
              IN  /\ set.mask # {}
                  /\ \E c \in set.mask \cap (0 .. (nr_cpu_ids - 1)) :
                         msix_mask'[d][i] = {c}]_vars

\* vector i of device d is a general vector or the vector of the control
\* receive context
FixedCpuVector(d, i) ==
    \/ msix_type(d, i) = "IRQ_GENERAL"
    \/ msix_type(d, i) = "IRQ_RCVCTXT" /\ msix_arg(d, i) = HFI1_CTRL_CTXT

\* C13: the acquire for a general vector or for the control receive context
\* gives the vector the single CPU of the general mask of the node entry and
\* changes no pool; the release of such a vector changes no pool either.
C13_FixedCpuNoAccounting ==
    [][\A d \in Devs : \A i \in Vectors(d) :
          FixedCpuVector(d, i) =>
              /\ hfi1_get_irq_affinity(d, i, TRUE) =>
                     LET entry == list[node_affinity_lookup(list, dd_node(d))]
                     IN  /\ Cardinality(entry.general_intr_mask) = 1
                         /\ msix_mask'[d][i] = entry.general_intr_mask
                         /\ list' = list
                         /\ proc' = proc
              /\ hfi1_put_irq_affinity(d, i) =>
                     /\ list' = list
                     /\ proc' = proc]_vars

\* a general vector and the control context are armed on the general CPU of
\* a node whose pools are in use
C13_Witness ==
    \E d \in attached : \E i \in armed[d] : \E j \in armed[d] :
        LET entry == list[node_affinity_lookup(list, dd_node(d))]
        IN  /\ msix_type(d, i) = "IRQ_GENERAL"
            /\ msix_type(d, j) = "IRQ_RCVCTXT"
            /\ msix_arg(d, j) = HFI1_CTRL_CTXT
            /\ msix_mask[d][i] = entry.general_intr_mask
            /\ msix_mask[d][j] = entry.general_intr_mask
            /\ entry.def_intr.used # {}

\* C14: an IRQ acquire for a device whose node has no entry in the list
\* returns an error to its caller, leaves the list and every pool unchanged
\* and returns with node_affinity.lock released.
C14_NoEntryReturnsError ==
    [][\A d \in Devs : \A i \in Vectors(d) : \A ok \in BOOLEAN :
          hfi1_get_irq_affinity_null_entry(d, i, ok) =>
              /\ pc'[d] = "idle"
              /\ lock' = 0
              /\ list' = list
              /\ proc' = proc]_vars

\* the CPUs targeted by the armed vectors of the pool of vector i of device d
Targeted(d, i) ==
    UNION {msix_mask[v[1]][v[2]] : v \in ArmedOnPool(d, i)}

\* C15 as stated: when no affinity is ever changed by the user, an acquire
\* from a pool returns a CPU that another armed vector of the pool targets
\* only when every CPU of the mask of the pool is targeted by an armed vector
\* of the pool.
C15_ReuseOnlyWhenAllTargeted ==
    [][\A d \in Devs : \A i \in Vectors(d) :
          AcquiresFromPool(d, i) =>
              (msix_mask'[d][i] \cap Targeted(d, i) # {} =>
                   set_in(list, d, i).mask \subseteq Targeted(d, i))]_vars

\* C15 amended: when no affinity is ever changed by the user, an acquire from
\* a pool whose mask is not empty returns a CPU that is marked in the used set
\* of the pool only when used = mask, that is, only by a wraparound.
C15_ReuseOnlyWhenAllUsed ==
    [][\A d \in Devs : \A i \in Vectors(d) :
          AcquiresFromPool(d, i) =>
              LET set == set_in(list, d, i)
              IN  set.mask # {} =>
                      /\ msix_mask'[d][i] \subseteq set.mask
                      /\ msix_mask'[d][i] \cap set.used # {} =>
                             set.used = set.mask]_vars

\* a pool of two CPUs after a wraparound: two armed vectors target its lowest
\* CPU and no armed vector targets the other
C15_Witness ==
    \E d \in attached : \E i \in armed[d] :
        LET set == set_in(list, d, i)
        IN  /\ set_of(d, i) # "none"
            /\ Cardinality(set.mask) = 2
            /\ set.gen = 1
            /\ set.used = {Min(set.mask)}
            /\ Cardinality(ArmedOnPool(d, i)) = 2
            /\ Targeted(d, i) = {Min(set.mask)}

\* the step is a call of hfi1_get_proc_affinity that returns CPU c
AdviseReturns(c) ==
    /\ held' = [held EXCEPT ![c] = @ + 1]
    /\ \E node \in Nodes, m \in ProcMasks, ok \in BOOLEAN :
           hfi1_get_proc_affinity(node, m, ok)

\* the step is a call by a task pinned to CPU c
AdviseOfPinned(c) ==
    /\ held' = [held EXCEPT ![c] = @ + 1]
    /\ \E node \in Nodes, ok \in BOOLEAN : hfi1_get_proc_affinity(node, {c}, ok)

PinnedSince ==
    {c \in 0 .. (nr_cpu_ids - 1) : held[c] > crit.held0[c]}

\* the pool and the return value are those of a serial execution: the
\* pinned calls on the CPUs B, then the locked operation, then the pinned
\* calls on the CPUs A
SerialOutcome(B, A) ==
    LET s0 == [crit.start EXCEPT !.used = @ \cup B]
        r == IF crit.op = "search" THEN proc_search(s0, crit.node)
             ELSE [cpu |-> crit.cpu, set |-> proc_put(s0, crit.cpu)]
    IN  /\ [r.set EXCEPT !.used = @ \cup A] = proc
        /\ r.cpu = crit.cpu

Serialisable ==
    \E B \in SUBSET PinnedSince : \E A \in SUBSET PinnedSince :
        /\ B \cup A = PinnedSince
        /\ \A c \in B \cap A : held[c] - crit.held0[c] >= 2
        /\ SerialOutcome(B, A)

AfterReset ==
    IF proc.used = proc.mask THEN [proc EXCEPT !.gen = @ + 1, !.used = {}]
    ELSE proc

\* the CPUs that are in the slice of some HW thread number
SliceCpus ==
    UNION {find_hw_thread_mask(i) : i \in 0 .. (num_core_siblings - 1)}

C19_DefaultPoolNotEmpty ==
    \A e \in 1 .. Len(list) : list[e].def_intr.mask # {}

\* C20: whenever hfi1_get_irq_affinity or hfi1_get_proc_affinity has
\* returned, on the invalid-type and allocation-failure paths as on the
\* others, every scratch mask the call allocated has been freed: between
\* calls no scratch mask is allocated.
C20_ScratchFreedOnReturn == scratch = 0

\* C22: a call of hfi1_get_proc_affinity or of hfi1_put_proc_affinity leaves
\* every entry of the list as it was: the general mask and the mask, used
\* and gen of the default and of the receive pool of every node.
C22_ProcCallsKeepEntries ==
    [][((\E node \in Nodes, m \in ProcMasks, ok \in BOOLEAN :
             hfi1_get_proc_affinity(node, m, ok))
        \/ (\E cpu \in -1 .. (nr_cpu_ids - 1) : hfi1_put_proc_affinity(cpu)))
       => list' = list]_vars

\* a search gave out a CPU, and wrapped the process pool, while the entry
\* of some node has interrupt CPUs in use
C22_Witness ==
    /\ \E e \in 1 .. Len(list) :
           list[e].def_intr.used # {} \/ list[e].rcv_intr.used # {}
    /\ \E c \in 0 .. (nr_cpu_ids - 1) : held[c] > 0
    /\ proc.gen > 0

\* two calls of hfi1_get_irq_affinity that ran at the same time for vectors
\* of the same pool have both returned 0: a began first, b began before a
\* had returned
AcquiredTogether(a, b) ==
    /\ a # b
    /\ acq[a].pc = "done" /\ acq[b].pc = "done"
    /\ acq[a].first /\ acq[a].joined /\ ~acq[b].first
    /\ acq[a].ret = 0 /\ acq[b].ret = 0
    /\ dd_node(a) = dd_node(b)
    /\ set_of(a, acq[a].i) # "none"
    /\ set_of(a, acq[a].i) = set_of(b, acq[b].i)

\* C23: when two threads run hfi1_get_irq_affinity at the same time on the
\* same pool and at least two CPUs of its mask were unused when the first
\* began, the two calls return different CPUs and both CPUs are in used when
\* both have returned, however their steps interleave.
C23_ConcurrentAcquiresDiffer ==
    \A a \in Devs, b \in Devs :
        (AcquiredTogether(a, b)
         /\ Cardinality(acq[a].start.mask \ acq[a].start.used) >= 2)
        => /\ acq[a].cpu # acq[b].cpu
           /\ {acq[a].cpu, acq[b].cpu}
                  \subseteq set_in(list, a, acq[a].i).used

\* the second call took the lock first, on a pool that had been in use
C23_Witness ==
    \E a \in Devs, b \in Devs :
        /\ AcquiredTogether(a, b)
        /\ Cardinality(acq[a].start.mask \ acq[a].start.used) >= 2
        /\ acq[a].start.used # {}
        /\ acq[b].cpu < acq[a].cpu

\* C21: every call ends with node_affinity.lock released, so that, the
\* scheduler being fair, a thread that waits for the lock in mutex_lock gets
\* it in the end.
C21_WaiterGetsLock ==
    \A t \in LiveThreads :
        (t \in Devs /\ pc[t] = "mutex_lock") ~> (t \in Devs /\ lock = t)

====
